---- MODULE Spec2Model ----
(***************************************************************************)
(* Model of the chat client in src/frontend/src/api.js: the API client     *)
(* (getHistory, sendMessage, resetChat) and the App component's state and  *)
(* handlers (loadHistory, toggleTag, handleSend, handleReset,              *)
(* clearSelectedTags).                                                     *)
(*                                                                         *)
(* JavaScript is single threaded: every handler runs to its next await     *)
(* and every promise continuation runs to completion, so each action below *)
(* is one such run.  A promise that settles queues the continuation of the *)
(* handler awaiting it (job); the continuation runs before any other event *)
(* is handled.  The network and the clock are the environment.             *)
(***************************************************************************)
EXTENDS Integers, Sequences, FiniteSets, TLC

VARIABLES
    history,       \* useState([])    : the message sequence
    content,       \* useState("")    : the composer text, a sequence of characters
    selectedTags,  \* useState([])    : the ordered tag selection
    isLoading,     \* useState(false) : the in-flight flag
    error,         \* useState(null)  : Null or an error message
    sends,         \* the handleSend calls suspended at "await sendMessage(...)"
    histReq,       \* the loadHistory call of the mount effect: "pending" or "done"
    resets,        \* the number of handleReset calls suspended at "await resetChat()"
    now,           \* Date.now() as it was last read
    nSends,        \* the number of sendMessage calls made so far
    job            \* the settled promise whose continuation is queued, if any

vars == <<history, content, selectedTags, isLoading, error, sends, histReq,
          resets, now, nSends, job>>

-----------------------------------------------------------------------------
\* Bounds of the model.
MaxSends == 2       \* accepted sends in one run
MaxResets == 1      \* handleReset calls pending at once
MaxGap == 1         \* milliseconds between two consecutive readings of Date.now()
MaxTicks == 1       \* readings within one handleSend call that find the clock advanced

-----------------------------------------------------------------------------
\* Values

Null == <<"null">>

Tags == {"@gpt", "@claude"}

\* The composer texts typed: empty, blank, and "h i" padded with white space.
Texts == {<<>>, <<" ", " ">>, <<" ", "h", " ", "i", " ">>}

FailStatuses == {"500"}
BodyTexts == {<<"boom">>}

\* String.prototype.trim: drop leading and trailing white space.
RECURSIVE TrimStart(_)
TrimStart(s) ==
    IF s # <<>> /\ Head(s) = " " THEN TrimStart(Tail(s)) ELSE s

RECURSIVE TrimEnd(_)
TrimEnd(s) ==
    IF s # <<>> /\ s[Len(s)] = " " THEN TrimEnd(SubSeq(s, 1, Len(s) - 1)) ELSE s

Trim(s) == TrimEnd(TrimStart(s))

\* tag.slice(1): the tag without its first character.
Slice1(tag) ==
    CASE tag = "@gpt" -> "gpt"
      [] tag = "@claude" -> "claude"

\* Messages the server issues: they never carry the loading flag.
ServerUserId(n) == <<"msg", n>>

ServerReply(n, i) ==
    [id |-> <<"rep", n, i>>,
     author |-> IF i % 2 = 1 THEN "gpt" ELSE "claude",
     role |-> "assistant",
     content |-> <<"reply">>,
     ts |-> i,
     isLoading |-> FALSE]

\* The lengths of the reply lists the server returns: none, which is fewer
\* replies than tags, and two, which is more than one tag and as many as two.
ReplyCounts == {0, 2}

\* The bodies POST /api/send can answer the n-th send with.
Responses(n) ==
    {[userMessageId |-> ServerUserId(n),
      replies |-> [i \in 1..k |-> ServerReply(n, i)]] : k \in ReplyCounts}

\* The bodies GET /api/history can answer with.
ServerHistories == {<<>>, <<ServerReply(0, 1)>>}

\* err.message of the errors the API client rejects with.
NetworkError == <<"Failed to fetch">>
AbortError == <<"The operation was aborted">>
DecodeError == <<"Unexpected token in JSON">>
HistoryStatusError(status) == <<"GET /history failed: ", status>>
SendStatusError(status, text) == <<"POST /send failed: ", status, " ">> \o text
ResetStatusError(status) == <<"POST /reset failed: ", status>>

-----------------------------------------------------------------------------
\* Pure parts of the handlers

\* Mutant: the guard tests the raw composer text, not the trimmed one.
SendRejectedUntrimmed(c, tags, loading) ==
    c = <<>> \/ Len(tags) = 0 \/ loading

\* handleSend's early return.
SendRejected(c, tags, loading) ==
    Trim(c) = <<>> \/ Len(tags) = 0 \/ loading

\* The milliseconds the clock can have advanced from one reading of
\* Date.now() to the next.
ClockSteps == 0..MaxGap

\* The gaps between the consecutive readings of one handleSend call, k of them
\* for k + 1 readings: every reading is a call of Date.now() of its own, and
\* finds the clock where the reading before found it, or further.
Gaps(k) ==
    {gaps \in [1..k -> ClockSteps] :
        Cardinality({i \in 1..k : gaps[i] > 0}) <= MaxTicks}

RECURSIVE After(_, _, _)
\* The clock at the k-th reading, the first one being first.
After(first, gaps, k) ==
    IF k = 1 THEN first ELSE After(first, gaps, k - 1) + gaps[k - 1]

\* The readings of Date.now() one handleSend call takes for n tags, 2 + 2n of
\* them: one for the temporary identifier, one for the user message's ts, and
\* for every placeholder one for its identifier and one for its ts.
Readings(first, gaps) ==
    [k \in 1..(Len(gaps) + 1) |-> After(first, gaps, k)]

\* The user message: idNow and tsNow are the readings of Date.now() for
\* tempUserMessageId and for ts.  The message has no isLoading property,
\* which filters and renders as false.
UserMessage(messageContent, idNow, tsNow) ==
    [id |-> <<"temp", idNow>>,
     author |-> "user",
     role |-> "user",
     content |-> messageContent,
     ts |-> tsNow,
     isLoading |-> FALSE]

\* The placeholders: the map callback reads Date.now() for the identifier and
\* again for ts, so reads holds two readings for every tag.
LoadingMessages(tagsToSend, reads) ==
    [k \in 1..Len(tagsToSend) |->
        [id |-> <<"loading", reads[2 * k - 1], k - 1>>,
         author |-> Slice1(tagsToSend[k]),
         role |-> "assistant",
         content |-> <<"Thinking...">>,
         ts |-> reads[2 * k] + (k - 1) + 1,
         isLoading |-> TRUE]]

\* Mutant: the new entries are spread before the earlier ones.
OptimisticAppendInFront(prev, userMessage, loadingMessages) ==
    <<userMessage>> \o loadingMessages \o prev

\* Mutant: the placeholders are spread before the user message.
OptimisticAppendPlaceholdersFirst(prev, userMessage, loadingMessages) ==
    prev \o loadingMessages \o <<userMessage>>

\* The updater of the optimistic append.
OptimisticAppend(prev, userMessage, loadingMessages) ==
    prev \o <<userMessage>> \o loadingMessages

\* Mutant: setIsLoading(true) is forgotten.
LoadingOnSendForgotten == FALSE

\* The value setIsLoading is called with when a send is accepted.
LoadingOnSend == TRUE

NotLoading(msg) == ~msg.isLoading

\* Mutant: only the first placeholder is taken out.
WithoutLoadingFirstOnly(prev) ==
    LET at == {k \in 1..Len(prev) : prev[k].isLoading}
    IN  IF at = {} THEN prev
        ELSE LET first == CHOOSE k \in at : \A j \in at : k <= j
             IN  SubSeq(prev, 1, first - 1)
                    \o SubSeq(prev, first + 1, Len(prev))

\* prev.filter(msg => !msg.isLoading)
WithoutLoading(prev) == SelectSeq(prev, NotLoading)

\* Mutant: the identifier is never replaced.
PatchIdNever(seq, tempUserMessageId, realId) == seq

\* The map of the success updater.
PatchId(seq, tempUserMessageId, realId) ==
    [k \in 1..Len(seq) |->
        IF seq[k].id = tempUserMessageId
        THEN [seq[k] EXCEPT !.id = realId]
        ELSE seq[k]]

\* Mutant: a user entry that is no longer in the sequence is put back.
ReconcileRestoresUserEntry(prev, tempUserMessageId, response) ==
    (IF \E k \in 1..Len(prev) : prev[k].id = tempUserMessageId
     THEN PatchId(WithoutLoading(prev), tempUserMessageId,
                  response.userMessageId)
     ELSE WithoutLoading(prev)
            \o <<[id |-> response.userMessageId,
                  author |-> "user",
                  role |-> "user",
                  content |-> <<>>,
                  ts |-> 0,
                  isLoading |-> FALSE]>>)
        \o response.replies

\* Mutant: the placeholders are not filtered out.
ReconcileKeepsPlaceholders(prev, tempUserMessageId, response) ==
    PatchId(prev, tempUserMessageId, response.userMessageId)
        \o response.replies

\* Mutant: the replies are spread before the earlier entries.
ReconcileRepliesFirst(prev, tempUserMessageId, response) ==
    response.replies
        \o PatchId(WithoutLoading(prev), tempUserMessageId,
                   response.userMessageId)

\* The updater of the success path.
Reconcile(prev, tempUserMessageId, response) ==
    PatchId(WithoutLoading(prev), tempUserMessageId, response.userMessageId)
        \o response.replies

\* Mutant: the failure path takes the unconfirmed user message away too.
RollbackUserMessageToo(prev) ==
    SelectSeq(prev, LAMBDA msg : ~msg.isLoading /\ msg.author # "user")

\* Mutant: the failure path leaves the sequence as it is.
RollbackNothing(prev) == prev

\* The updater of the failure path.
Rollback(prev) == WithoutLoading(prev)

SendErrorText(message) == <<"Failed to send message: ">> \o message
ResetErrorText(message) == <<"Failed to reset chat: ">> \o message
HistoryErrorText(message) == <<"Failed to load history: ">> \o message

\* Mutant: the tag is appended whether it is selected or not.
ToggleTagAlwaysAppends(prev, tag) == Append(prev, tag)

\* Mutant: a tag that is not selected is put in front.
ToggleTagPrepends(prev, tag) ==
    IF \E k \in 1..Len(prev) : prev[k] = tag
    THEN SelectSeq(prev, LAMBDA t : t # tag)
    ELSE <<tag>> \o prev

\* The updater of toggleTag.
ToggleTag(prev, tag) ==
    IF \E k \in 1..Len(prev) : prev[k] = tag
    THEN SelectSeq(prev, LAMBDA t : t # tag)
    ELSE Append(prev, tag)

RemoveAt(seq, i) == SubSeq(seq, 1, i - 1) \o SubSeq(seq, i + 1, Len(seq))

-----------------------------------------------------------------------------
NoJob == [op |-> "none"]

\* No continuation is queued: the event loop takes the next event.
Idle == job.op = "none"

Init ==
    /\ history = <<>>
    /\ content = <<>>
    /\ selectedTags = <<>>
    /\ isLoading = FALSE
    /\ error = Null
    /\ sends = <<>>
    /\ histReq = "pending"
    /\ resets = 0
    /\ now = 0
    /\ nSends = 0
    /\ job = NoJob

\* ---- the composer ----

\* The textarea's onChange; the textarea is disabled while isLoading.
SetContent(text) ==
    /\ Idle
    /\ ~isLoading
    /\ content' = text
    /\ UNCHANGED <<history, selectedTags, isLoading, error, sends, histReq,
                   resets, now, nSends, job>>

\* Mutant: the request in flight is given the new selection.
ToggleTagClickRetagsRequest(tag) ==
    /\ Idle
    /\ selectedTags' = ToggleTag(selectedTags, tag)
    /\ sends' = [i \in 1..Len(sends) |->
                    [sends[i] EXCEPT !.tags = selectedTags']]
    /\ UNCHANGED <<history, content, isLoading, error, histReq, resets, now,
                   nSends, job>>

\* A click on a tag button.
ToggleTagClick(tag) ==
    /\ Idle
    /\ selectedTags' = ToggleTag(selectedTags, tag)
    /\ UNCHANGED <<history, content, isLoading, error, sends, histReq,
                   resets, now, nSends, job>>

\* The "Clear selection" button is rendered only for a non-empty selection.
ClearSelectedTags ==
    /\ Idle
    /\ Len(selectedTags) > 0
    /\ selectedTags' = <<>>
    /\ UNCHANGED <<history, content, isLoading, error, sends, histReq,
                   resets, now, nSends, job>>

\* ---- handleSend ----

\* sendMessage up to its first await: the abort timer is armed and the fetch
\* of POST /api/send is started with the body {content, tags}.
NewSend(messageContent, tagsToSend, tempUserMessageId, n) ==
    [content |-> messageContent,
     tags |-> tagsToSend,
     tempId |-> tempUserMessageId,
     n |-> n,
     phase |-> "fetch",
     reset |-> FALSE,
     status |-> "",
     timer |-> TRUE,
     overdue |-> FALSE]

\* handleSend up to its await: the early return, or the optimistic update and
\* the call of sendMessage.  Date.now() is read 2 + 2n times for n tags; the
\* readings are counted from the first one the program takes, and now is the
\* last one taken.
HandleSend ==
    /\ Idle
    /\ IF SendRejected(content, selectedTags, isLoading)
       THEN UNCHANGED vars
       ELSE /\ nSends < MaxSends
            /\ \E step \in IF nSends = 0 THEN {0} ELSE ClockSteps :
               \E gaps \in Gaps(1 + 2 * Len(selectedTags)) :
                 LET messageContent == Trim(content)
                     tagsToSend == selectedTags
                     n == Len(tagsToSend)
                     first == now + step
                     reads == Readings(first, gaps)
                     userMessage ==
                        UserMessage(messageContent, reads[1], reads[2])
                     loadingMessages ==
                        LoadingMessages(tagsToSend, SubSeq(reads, 3, 2 + 2 * n))
                 IN  /\ now' = reads[2 + 2 * n]
                     /\ history' = OptimisticAppend(history, userMessage,
                                                    loadingMessages)
                     /\ sends' = Append(sends,
                                    NewSend(messageContent, tagsToSend,
                                            userMessage.id, nSends + 1))
            /\ content' = <<>>
            /\ isLoading' = LoadingOnSend
            /\ error' = Null
            /\ nSends' = nSends + 1
            /\ UNCHANGED <<selectedTags, histReq, resets, job>>

\* ---- sendMessage, awaited in handleSend's try block ----

\* sendMessage's promise resolves with the decoded body.
SendResolves(i, response) ==
    /\ job' = [op |-> "sendResolved", i |-> i, response |-> response]
    /\ UNCHANGED <<history, content, selectedTags, isLoading, error, sends,
                   histReq, resets, now, nSends>>

\* sendMessage's promise rejects with an error whose message is `message`.
SendRejects(i, message, cause) ==
    /\ job' = [op |-> "sendRejected", i |-> i, message |-> message,
               cause |-> cause]
    /\ UNCHANGED <<history, content, selectedTags, isLoading, error, sends,
                   histReq, resets, now, nSends>>

\* fetch resolves with response.ok: "return response.json()" evaluates the call,
\* the finally block clears the timer, and the body is read with no timer.
FetchResolvesOk(i) ==
    /\ Idle
    /\ sends[i].phase = "fetch"
    /\ sends' = [sends EXCEPT ![i].phase = "json", ![i].timer = FALSE]
    /\ UNCHANGED <<history, content, selectedTags, isLoading, error, histReq,
                   resets, now, nSends, job>>

\* fetch resolves with a non-2xx status: sendMessage awaits response.text().
FetchResolvesNotOk(i, status) ==
    /\ Idle
    /\ sends[i].phase = "fetch"
    /\ sends' = [sends EXCEPT ![i].phase = "text", ![i].status = status]
    /\ UNCHANGED <<history, content, selectedTags, isLoading, error, histReq,
                   resets, now, nSends, job>>

\* fetch rejects: the connection could not be established.
FetchRejects(i) ==
    /\ Idle
    /\ sends[i].phase = "fetch"
    /\ SendRejects(i, NetworkError, "transport")

\* response.text() resolves; sendMessage throws the status error.
TextResolves(i, text) ==
    /\ Idle
    /\ sends[i].phase = "text"
    /\ SendRejects(i, SendStatusError(sends[i].status, text), "status")

\* response.text() rejects; .catch(() => "") turns that into the empty text.
TextRejects(i) ==
    /\ Idle
    /\ sends[i].phase = "text"
    /\ SendRejects(i, SendStatusError(sends[i].status, <<>>), "status")

\* response.json() resolves with the server's body.
JsonResolves(i, response) ==
    /\ Idle
    /\ sends[i].phase = "json"
    /\ SendResolves(i, response)

\* response.json() rejects: the body does not decode.
JsonRejects(i) ==
    /\ Idle
    /\ sends[i].phase = "json"
    /\ SendRejects(i, DecodeError, "decode")

\* timeoutMs have passed since sendMessage was called and it has not settled.
\* An armed timer runs controller.abort(): a pending fetch rejects with the
\* abort error; a pending response.text() rejects and is caught as "".
\* A cleared timer does nothing: the call is past its timeout and pending.
TimeoutElapses(i) ==
    /\ Idle
    /\ ~sends[i].overdue
    /\ CASE sends[i].timer /\ sends[i].phase = "fetch" ->
                SendRejects(i, AbortError, "timeout")
         [] sends[i].timer /\ sends[i].phase = "text" ->
                SendRejects(i, SendStatusError(sends[i].status, <<>>),
                            "timeout")
         [] OTHER ->
                /\ sends' = [sends EXCEPT ![i].overdue = TRUE]
                /\ UNCHANGED <<history, content, selectedTags, isLoading,
                               error, histReq, resets, now, nSends, job>>

\* handleSend after "await sendMessage(...)" resolved: the success updater, then
\* the finally block.
SendSucceeded ==
    /\ job.op = "sendResolved"
    /\ history' = Reconcile(history, sends[job.i].tempId, job.response)
    /\ isLoading' = FALSE
    /\ sends' = RemoveAt(sends, job.i)
    /\ job' = NoJob
    /\ UNCHANGED <<content, selectedTags, error, histReq, resets, now, nSends>>

\* handleSend after "await sendMessage(...)" rejected: the catch block, then the
\* finally block.
SendFailed ==
    /\ job.op = "sendRejected"
    /\ error' = SendErrorText(job.message)
    /\ history' = Rollback(history)
    /\ isLoading' = FALSE
    /\ sends' = RemoveAt(sends, job.i)
    /\ job' = NoJob
    /\ UNCHANGED <<content, selectedTags, histReq, resets, now, nSends>>

\* ---- loadHistory, called once by the mount effect ----

\* getHistory's promise resolves with the body {history: h}.
HistoryResolves(h) ==
    /\ Idle
    /\ histReq = "pending"
    /\ job' = [op |-> "historyResolved", history |-> h]
    /\ UNCHANGED <<history, content, selectedTags, isLoading, error, sends,
                   histReq, resets, now, nSends>>

\* getHistory's promise rejects: fetch failed, the status is not 2xx, or the
\* body of a 2xx answer does not decode.
HistoryRejects(message) ==
    /\ Idle
    /\ histReq = "pending"
    /\ job' = [op |-> "historyRejected", message |-> message]
    /\ UNCHANGED <<history, content, selectedTags, isLoading, error, sends,
                   histReq, resets, now, nSends>>

HistoryLoaded ==
    /\ job.op = "historyResolved"
    /\ history' = job.history
    /\ histReq' = "done"
    /\ job' = NoJob
    /\ UNCHANGED <<content, selectedTags, isLoading, error, sends, resets,
                   now, nSends>>

\* Mutant: the catch block asks for the history again.
HistoryFailedRetries ==
    /\ job.op = "historyRejected"
    /\ error' = HistoryErrorText(job.message)
    /\ histReq' = "pending"
    /\ job' = NoJob
    /\ UNCHANGED <<history, content, selectedTags, isLoading, sends, resets,
                   now, nSends>>

\* loadHistory after "await getHistory()" rejected: the catch block.
HistoryFailed ==
    /\ job.op = "historyRejected"
    /\ error' = HistoryErrorText(job.message)
    /\ histReq' = "done"
    /\ job' = NoJob
    /\ UNCHANGED <<history, content, selectedTags, isLoading, sends, resets,
                   now, nSends>>

\* ---- handleReset ----

\* The click: handleReset runs up to "await resetChat()".
HandleReset ==
    /\ Idle
    /\ resets < MaxResets
    /\ resets' = resets + 1
    /\ UNCHANGED <<history, content, selectedTags, isLoading, error, sends,
                   histReq, now, nSends, job>>

\* resetChat's promise resolves: the status is 2xx and the body decodes.
ResetResolves ==
    /\ Idle
    /\ resets > 0
    /\ job' = [op |-> "resetResolved"]
    /\ UNCHANGED <<history, content, selectedTags, isLoading, error, sends,
                   histReq, resets, now, nSends>>

\* resetChat's promise rejects: fetch failed, the status is not 2xx, or the
\* body of a 2xx answer does not decode.
ResetRejects(message) ==
    /\ Idle
    /\ resets > 0
    /\ job' = [op |-> "resetRejected", message |-> message]
    /\ UNCHANGED <<history, content, selectedTags, isLoading, error, sends,
                   histReq, resets, now, nSends>>

\* History variable: the calls in flight when a reset succeeds are marked, the
\* program keeps no such record.
MarkReset(calls) ==
    [i \in 1..Len(calls) |-> [calls[i] EXCEPT !.reset = TRUE]]

\* handleReset after "await resetChat()" resolved.
ResetSucceeded ==
    /\ job.op = "resetResolved"
    /\ history' = <<>>
    /\ error' = Null
    /\ resets' = resets - 1
    /\ job' = NoJob
    /\ sends' = MarkReset(sends)
    /\ UNCHANGED <<content, selectedTags, isLoading, histReq, now, nSends>>

\* Mutant: the catch block empties the sequence too.
ResetFailedClearsHistory ==
    /\ job.op = "resetRejected"
    /\ error' = ResetErrorText(job.message)
    /\ history' = <<>>
    /\ resets' = resets - 1
    /\ job' = NoJob
    /\ UNCHANGED <<content, selectedTags, isLoading, sends, histReq, now,
                   nSends>>

\* handleReset after "await resetChat()" rejected: the catch block.
ResetFailed ==
    /\ job.op = "resetRejected"
    /\ error' = ResetErrorText(job.message)
    /\ resets' = resets - 1
    /\ job' = NoJob
    /\ UNCHANGED <<history, content, selectedTags, isLoading, sends, histReq,
                   now, nSends>>

-----------------------------------------------------------------------------
Timeout == \E i \in 1..Len(sends) : TimeoutElapses(i)

Next ==
    \/ \E text \in Texts : SetContent(text)
    \/ \E tag \in Tags : ToggleTagClick(tag)
    \/ ClearSelectedTags
    \/ HandleSend
    \/ \E i \in 1..Len(sends) : FetchResolvesOk(i)
    \/ \E i \in 1..Len(sends), status \in FailStatuses :
            FetchResolvesNotOk(i, status)
    \/ \E i \in 1..Len(sends) : FetchRejects(i)
    \/ \E i \in 1..Len(sends), text \in BodyTexts : TextResolves(i, text)
    \/ \E i \in 1..Len(sends) : TextRejects(i)
    \/ \E i \in 1..Len(sends) : \E response \in Responses(sends[i].n) :
            JsonResolves(i, response)
    \/ \E i \in 1..Len(sends) : JsonRejects(i)
    \/ Timeout
    \/ SendSucceeded
    \/ SendFailed
    \/ \E h \in ServerHistories : HistoryResolves(h)
    \/ \E message \in {NetworkError, DecodeError}
                        \cup {HistoryStatusError(s) : s \in FailStatuses} :
            HistoryRejects(message)
    \/ HistoryLoaded
    \/ HistoryFailed
    \/ HandleReset
    \/ ResetResolves
    \/ \E message \in {NetworkError, DecodeError}
                        \cup {ResetStatusError(s) : s \in FailStatuses} :
            ResetRejects(message)
    \/ ResetSucceeded
    \/ ResetFailed

Spec == Init /\ [][Next]_vars

\* Timers fire: a pending call reaches its timeout unless it settles first.
\* Queued continuations run.  Nothing obliges the network to answer.
FairSpec ==
    /\ Spec
    /\ WF_vars(Timeout)
    /\ WF_vars(SendSucceeded)
    /\ WF_vars(SendFailed)
    /\ WF_vars(HistoryLoaded)
    /\ WF_vars(HistoryFailed)
    /\ WF_vars(ResetSucceeded)
    /\ WF_vars(ResetFailed)

-----------------------------------------------------------------------------
\* Properties

Loading(seq) == SelectSeq(seq, LAMBDA m : m.isLoading)
Settled(seq) == SelectSeq(seq, LAMBDA m : ~m.isLoading)
Last(seq, n) == SubSeq(seq, Len(seq) - n + 1, Len(seq))
IsErrorText(e) == e # Null /\ e # <<>>

\* a and b are the same message but, possibly, for the identifier.
SameButId(a, b) ==
    /\ a.author = b.author
    /\ a.role = b.role
    /\ a.content = b.content
    /\ a.ts = b.ts
    /\ a.isLoading = b.isLoading

\* handleSend can run and change something: the view's state, the requests
\* in flight or the number of requests made.
SendAttemptHasEffect == ENABLED (HandleSend /\ vars' # vars)

\* C1: at most one sendMessage call made by handleSend is in flight in every
\* reachable state, and while the in-flight flag is true a send attempt changes
\* nothing: no request is made and none is queued.
C1_AtMostOneSendInFlight ==
    /\ Len(sends) <= 1
    /\ isLoading => ~SendAttemptHasEffect

\* A send is in flight, tags are selected, and handleSend is attempted.
C1_Witness ==
    /\ isLoading
    /\ Len(sends) = 1
    /\ Len(selectedTags) = 2
    /\ ENABLED HandleSend

\* C2: with the trimmed composer text empty or the selection empty, a send
\* attempt is a no-op: the sequence, the composer text, the selection, the
\* in-flight flag and the error state stay as they are and no request is made.
C2_BlankOrUntaggedSendIsNoOp ==
    (Trim(content) = <<>> \/ Len(selectedTags) = 0) => ~SendAttemptHasEffect

\* No send is in flight, the composer text is white space only, a tag is
\* selected, and handleSend is attempted.
C2_Witness ==
    /\ ~isLoading
    /\ content = <<" ", " ">>
    /\ Len(selectedTags) = 1
    /\ history # <<>>
    /\ ENABLED HandleSend

\* C3: the step that accepts a send with n selected tags turns the sequence
\* into the previous sequence, then one user-authored entry that is not
\* loading, then n loading entries, the k-th by the k-th selected tag.
C3_OptimisticAppendShape ==
    [][nSends' = nSends + 1 =>
        LET n == Len(selectedTags)
            old == Len(history)
        IN  /\ Len(history') = old + 1 + n
            /\ SubSeq(history', 1, old) = history
            /\ history'[old + 1].author = "user"
            /\ history'[old + 1].role = "user"
            /\ history'[old + 1].content = Trim(content)
            /\ ~history'[old + 1].isLoading
            /\ \A k \in 1..n :
                 /\ history'[old + 1 + k].isLoading
                 /\ history'[old + 1 + k].author = Slice1(selectedTags[k])]_vars

\* A send with two tags was accepted on top of an earlier entry and no
\* response has arrived: one entry, the user message, two placeholders.
C3_Witness ==
    /\ Len(sends) = 1
    /\ sends[1].phase = "fetch"
    /\ sends[1].tags = <<"@claude", "@gpt">>
    /\ Len(history) = 4
    /\ history[1].id = <<"rep", 0, 1>>
    /\ history[2].id = sends[1].tempId
    /\ history[3].author = "claude" /\ history[3].isLoading
    /\ history[4].author = "gpt" /\ history[4].isLoading

\* C4: the step that applies a successful response with reply list R leaves
\* no loading entry and a sequence that is the entries that were there and not
\* loading, in their order, followed by R in the server's order.
C4_SuccessAppendsReplies ==
    [][job.op = "sendResolved" =>
        LET R == job.response.replies
            kept == Settled(history)
        IN  /\ Loading(history') = <<>>
            /\ Len(history') = Len(kept) + Len(R)
            /\ Last(history', Len(R)) = R
            /\ \A k \in 1..Len(kept) : SameButId(history'[k], kept[k])]_vars

\* A send was answered with two replies: the sequence ends with them, after
\* the earlier entry and the user message.
C4_Witness ==
    /\ sends = <<>>
    /\ job.op = "none"
    /\ nSends = 1
    /\ Len(history) = 4
    /\ history[1].id = <<"rep", 0, 1>>
    /\ history[2].author = "user"
    /\ history[3].id = <<"rep", 1, 1>>
    /\ history[4].id = <<"rep", 1, 2>>

\* C5 as claimed: after the step that applies a successful response, the user
\* entry of that send is in the sequence with the server's identifier and no
\* entry has the send's temporary identifier, whatever ran meanwhile.
C5_UserEntryAlwaysPatched ==
    [][job.op = "sendResolved" =>
        /\ \E k \in 1..Len(history') :
             /\ history'[k].id = job.response.userMessageId
             /\ history'[k].author = "user"
             /\ history'[k].content = sends[job.i].content
        /\ \A k \in 1..Len(history') :
             history'[k].id # sends[job.i].tempId]_vars

\* C5 amended: after the step that applies a successful response no entry has
\* the send's temporary identifier; and if an entry with it was still in the
\* sequence (no reset and no history load replaced the sequence while the
\* send was in flight), the send's user entry is there, in its place, with the
\* server's identifier.
C5_UserEntryPatchedIfPresent ==
    [][job.op = "sendResolved" =>
        LET kept == Settled(history)
            mine == {k \in 1..Len(kept) : kept[k].id = sends[job.i].tempId}
        IN  /\ \A k \in 1..Len(history') :
                 history'[k].id # sends[job.i].tempId
            /\ mine # {} =>
                 \E k \in mine :
                    /\ history'[k].id = job.response.userMessageId
                    /\ history'[k].author = "user"
                    /\ history'[k].content = sends[job.i].content
                    /\ history'[k].ts = kept[k].ts]_vars

\* The second send was answered: its user entry has the server's identifier,
\* behind the user entry of the first send, which failed.
C5_Witness ==
    /\ sends = <<>>
    /\ job.op = "none"
    /\ nSends = 2
    /\ Len(history) >= 2
    /\ history[1].id = <<"temp", 0>>
    /\ history[2].id = ServerUserId(2)
    /\ history[2].author = "user"

\* C6: the step that handles a failed send, whatever the failure, leaves no
\* loading entry in the sequence and an error state that is an error text.
C6_FailureClearsPlaceholders ==
    [][job.op = "sendRejected" =>
        /\ Loading(history') = <<>>
        /\ IsErrorText(error')]_vars

\* A send failed on its response body: the error state says so, the user
\* message is left and no placeholder is.
C6_Witness ==
    /\ sends = <<>>
    /\ job.op = "none"
    /\ error = <<"Failed to send message: ">> \o DecodeError
    /\ Len(history) = 1
    /\ history[1].id = <<"temp", 0>>

\* C7: whenever the in-flight flag is true it becomes false again.
C7_InFlightFlagEventuallyClears == isLoading ~> ~isLoading

\* C8: no sendMessage call is pending past its timeout, and a call that the
\* timeout ends rejects with the abort error.
C8_TimeoutAbortsTheCall ==
    /\ \A i \in 1..Len(sends) : ~sends[i].overdue
    /\ (job.op = "sendRejected" /\ job.cause = "timeout")
            => job.message = AbortError

\* C9: the step that handles the answer to a reset the server has carried
\* out, which is an answer with a 2xx status whatever its body, leaves the
\* sequence empty and the error state null.
C9_ResetClearsHistoryAndError ==
    [][(\/ job.op = "resetResolved"
        \/ job.op = "resetRejected" /\ job.message = DecodeError) =>
        /\ history' = <<>>
        /\ error' = Null]_vars

\* C10: the step that handles a failed reset sets the error state to an error
\* text and leaves the sequence, the composer text, the selection and the
\* in-flight flag as they are.
C10_FailedResetKeepsHistory ==
    [][job.op = "resetRejected" =>
        /\ IsErrorText(error')
        /\ UNCHANGED <<history, content, selectedTags, isLoading>>]_vars

\* A reset failed while a send is in flight: the error state says so and the
\* user message and its two placeholders are in the sequence.
C10_Witness ==
    /\ job.op = "none"
    /\ error = <<"Failed to reset chat: ">> \o NetworkError
    /\ isLoading
    /\ Len(history) = 3
    /\ Len(selectedTags) = 1
    /\ Len(Loading(history)) = 2

\* t is one of the tags of s.
Has(s, t) == \E k \in 1..Len(s) : s[k] = t

\* The place of t in s.
Pos(s, t) == CHOOSE k \in 1..Len(s) : s[k] = t

\* r is s without t: t is not in r, every other tag of s is, once, and the
\* tags of r are in the order they have in s.
IsRemovalOf(r, s, t) ==
    /\ ~Has(r, t)
    /\ Len(r) = Len(s) - 1
    /\ \A k \in 1..Len(s) : s[k] # t => Has(r, s[k])
    /\ \A i, j \in 1..Len(r) : i < j => Pos(s, r[i]) < Pos(s, r[j])

\* r is what toggling t makes of s.
IsToggleOf(r, s, t) ==
    IF Has(s, t) THEN IsRemovalOf(r, s, t) ELSE r = s \o <<t>>

\* Every click on a tag button toggles that tag, and toggling two absent tags
\* a then b leaves a selection that ends with a, b.
ToggleAppendsOrRemoves ==
    /\ \A t \in Tags :
         ~ENABLED (ToggleTagClick(t)
                      /\ ~IsToggleOf(selectedTags', selectedTags, t))
    /\ \A a, b \in Tags :
         (a # b /\ ~Has(selectedTags, a) /\ ~Has(selectedTags, b))
            => ToggleTag(ToggleTag(selectedTags, a), b)
                    = selectedTags \o <<a, b>>

\* C11 as claimed: toggleTag(t) appends t when it is absent and removes it,
\* keeping the order of the others, when it is present; toggling two absent
\* tags a then b gives a selection ending with a, b; and toggling any tag
\* twice in a row gives the selection back.
C11_ToggleTwiceRestores ==
    /\ ToggleAppendsOrRemoves
    /\ \A t \in Tags :
         ToggleTag(ToggleTag(selectedTags, t), t) = selectedTags

\* C11 amended: toggleTag(t) appends t when it is absent and removes it,
\* keeping the order of the others, when it is present; toggling two absent
\* tags a then b gives a selection ending with a, b; toggling t twice in a row
\* gives the selection back when t was absent, and when t was present it gives
\* the other tags in their order followed by t, which is the selection only
\* if t was its last tag.
C11_ToggleTwiceMovesToEnd ==
    /\ ToggleAppendsOrRemoves
    /\ \A t \in Tags :
         LET once == ToggleTag(selectedTags, t)
             twice == ToggleTag(once, t)
         IN  IF Has(selectedTags, t)
             THEN /\ IsRemovalOf(once, selectedTags, t)
                  /\ twice = once \o <<t>>
                  /\ (twice = selectedTags)
                        <=> (selectedTags[Len(selectedTags)] = t)
             ELSE twice = selectedTags

\* Both tags are selected, "@claude" first, and "@claude" can be toggled:
\* twice in a row, that leaves "@gpt" first.
C11_Witness ==
    /\ selectedTags = <<"@claude", "@gpt">>
    /\ ENABLED (ToggleTagClick("@claude") /\ selectedTags' = <<"@gpt">>)

\* C12: the step that accepts a send makes a request whose text is the trimmed
\* composer text and whose tags are the selection, in order, as they are at
\* that step; a request in flight keeps its text and its tags; and a step that
\* changes the selection changes neither the requests nor the sequence, so the
\* placeholders stay as they were appended.
C12_RequestIsSnapshot ==
    [][/\ nSends' = nSends + 1 =>
            /\ Len(sends') = Len(sends) + 1
            /\ sends'[Len(sends')].content = Trim(content)
            /\ sends'[Len(sends')].tags = selectedTags
       /\ \A i \in 1..Len(sends), j \in 1..Len(sends') :
            sends'[j].n = sends[i].n =>
                /\ sends'[j].content = sends[i].content
                /\ sends'[j].tags = sends[i].tags
       /\ selectedTags' # selectedTags =>
            /\ sends' = sends
            /\ history' = history]_vars

\* A send of "h i" to two tags is in flight, its two placeholders are in the
\* sequence, and the selection has been emptied since.
C12_Witness ==
    /\ Len(sends) = 1
    /\ sends[1].content = <<"h", " ", "i">>
    /\ sends[1].tags = <<"@gpt", "@claude">>
    /\ selectedTags = <<>>
    /\ Len(Loading(history)) = 2
    /\ Last(history, 2)[1].author = "gpt"
    /\ Last(history, 2)[2].author = "claude"

\* C13 as claimed: the step that handles a failed history fetch sets the error
\* state to an error text and leaves an empty sequence, and once the history
\* request is over no history request is pending again.
C13_FailedLoadLeavesEmpty ==
    [][/\ job.op = "historyRejected" =>
            /\ IsErrorText(error')
            /\ history' = <<>>
            /\ histReq' = "done"
       /\ histReq = "done" => histReq' = "done"]_vars

\* C13 amended: the step that handles a failed history fetch sets the error
\* state to an error text and leaves the sequence as it is, which is empty if
\* no send has been accepted before; and once the history request is over no
\* history request is pending again.
C13_FailedLoadLeavesSequence ==
    [][/\ job.op = "historyRejected" =>
            /\ IsErrorText(error')
            /\ history' = history
            /\ nSends = 0 => history' = <<>>
            /\ histReq' = "done"
       /\ histReq = "done" => histReq' = "done"]_vars

\* The history fetch failed while a send is in flight: the error state says
\* so, and the user message and its placeholder are in the sequence.
C13_Witness ==
    /\ job.op = "none"
    /\ error = <<"Failed to load history: ">> \o NetworkError
    /\ histReq = "done"
    /\ isLoading
    /\ Len(history) = 2
    /\ history[1].author = "user"
    /\ history[2].isLoading

\* C14: the step that handles a failed send takes the loading entries out of
\* the sequence and nothing else: what is left is the entries that were not
\* loading, as they were and in their order, the failed send's user message
\* with its temporary identifier among them if it was there.
C14_FailureKeepsSettledEntries ==
    [][job.op = "sendRejected" =>
        /\ Len(history') = Len(history) - Len(Loading(history))
        /\ history' = Settled(history)
        /\ \A k \in 1..Len(history) :
             history[k].id = sends[job.i].tempId =>
                \E j \in 1..Len(history') : history'[j] = history[k]]_vars

\* A send failed with status 500: the entry that was loaded before it and the
\* user message with its temporary identifier are left, in that order.
C14_Witness ==
    /\ job.op = "none"
    /\ ~isLoading
    /\ error = <<"Failed to send message: ">>
                   \o SendStatusError("500", <<"boom">>)
    /\ Len(history) = 2
    /\ history[1].id = <<"rep", 0, 1>>
    /\ history[2].id = <<"temp", 0>>
    /\ history[2].author = "user"

\* C15: every step a send causes (the optimistic append, the reconciliation
\* of a success, the rollback of a failure) keeps the entries it does not
\* remove at the head of the sequence, in the order they had, each as it was
\* but for the identifier the success patches; what the step adds comes after
\* them.  Only loading entries are removed.
C15_SendStepsKeepOrder ==
    [][(nSends' = nSends + 1 \/ job.op \in {"sendResolved", "sendRejected"}) =>
        LET kept == IF job.op = "none" THEN history ELSE Settled(history)
        IN  /\ Len(history') >= Len(kept)
            /\ \A k \in 1..Len(kept) :
                 /\ SameButId(history'[k], kept[k])
                 /\ \/ history'[k].id = kept[k].id
                    \/ /\ job.op = "sendResolved"
                       /\ kept[k].id = sends[job.i].tempId
                       /\ history'[k].id = job.response.userMessageId]_vars

\* Two sends were answered, two replies each: the user message and the
\* replies of the first, then the user message and the replies of the second.
C15_Witness ==
    /\ job.op = "none"
    /\ sends = <<>>
    /\ nSends = 2
    /\ Len(history) = 6
    /\ history[1].id = ServerUserId(1)
    /\ history[2].id = <<"rep", 1, 1>>
    /\ history[3].id = <<"rep", 1, 2>>
    /\ history[4].id = ServerUserId(2)
    /\ history[5].id = <<"rep", 2, 1>>
    /\ history[6].id = <<"rep", 2, 2>>

\* C16: in every reachable state where the in-flight flag is false, no entry
\* of the sequence is loading.
C16_NoPlaceholderWhenNotLoading ==
    ~isLoading => \A k \in 1..Len(history) : ~history[k].isLoading

\* A send with two tags was answered with no reply: the flag is false and the
\* sequence holds the user message only.
C16_Witness ==
    /\ ~isLoading
    /\ job.op = "none"
    /\ nSends = 1
    /\ sends = <<>>
    /\ selectedTags = <<"@gpt", "@claude">>
    /\ Len(history) = 1
    /\ history[1].id = ServerUserId(1)

\* C17: in every reachable state the sequence has no loading entry, or it has
\* as many as the send in flight has tags, and they are its last entries.
C17_PlaceholdersAllOrNone ==
    LET n == Len(Loading(history))
    IN  \/ n = 0
        \/ /\ Len(sends) = 1
           /\ isLoading
           /\ n = Len(sends[1].tags)
           /\ \A k \in 1..n : history[Len(history) - n + k].isLoading

\* The fetch of a send with two tags has resolved and its body is being read:
\* the two placeholders are in the sequence.
C17_Witness ==
    /\ Len(sends) = 1
    /\ sends[1].phase = "json"
    /\ Len(sends[1].tags) = 2
    /\ Len(Loading(history)) = 2
    /\ Len(history) = 3

\* C18 as claimed: when a reset has succeeded while a send was in flight, the
\* step that applies the send's successful response leaves exactly the
\* server's replies: no user entry of that send, under either identifier.
C18_ResetThenSuccessIsRepliesOnly ==
    [][(job.op = "sendResolved" /\ sends[job.i].reset) =>
        /\ history' = job.response.replies
        /\ \A k \in 1..Len(history') :
             /\ history'[k].id # sends[job.i].tempId
             /\ history'[k].id # job.response.userMessageId]_vars

\* C18 amended: when a reset has succeeded while a send was in flight and the
\* sequence is still empty when the send's successful response is applied (no
\* history load has filled it since), that step leaves exactly the server's
\* replies: no user entry of that send, under either identifier.
C18_ResetThenSuccessOnEmptyIsRepliesOnly ==
    [][(job.op = "sendResolved" /\ sends[job.i].reset /\ history = <<>>) =>
        /\ history' = job.response.replies
        /\ \A k \in 1..Len(history') :
             /\ history'[k].id # sends[job.i].tempId
             /\ history'[k].id # job.response.userMessageId]_vars

\* A reset succeeded while the send was in flight, the sequence is empty and
\* the send's response, two replies, is about to be applied.
C18_Witness ==
    /\ job.op = "sendResolved"
    /\ sends[job.i].reset
    /\ history = <<>>
    /\ Len(job.response.replies) = 2
    /\ ENABLED (SendSucceeded /\ history' = job.response.replies)

\* C19: in every reachable state, which the selection reaches from the empty
\* one by toggleTag and clearSelectedTags calls, no tag is in the selection
\* twice.
C19_SelectionHasNoDuplicate ==
    \A i, j \in 1..Len(selectedTags) :
        selectedTags[i] = selectedTags[j] => i = j

\* Every tag has been toggled in: the selection holds each of them once.
C19_Witness ==
    /\ Len(selectedTags) = Cardinality(Tags)
    /\ \A t \in Tags : Has(selectedTags, t)

====
